---------------------------- MODULE Spec2Model ----------------------------
(***************************************************************************)
(* Model of the basisu safe wrapper (src/src/lib.rs): the two              *)
(* initialise-once cells used by BasisTranscoder::new, the session and     *)
(* handle operations, and the OutputFormat metadata helpers.               *)
(*                                                                         *)
(* The codec engine itself is the vendored C++ transcoder behind           *)
(* basisu-sys; the definitions named Engine... describe its interface.     *)
(***************************************************************************)
EXTENDS Integers, Sequences, FiniteSets, TLC

(***************************************************************************)
(* Machine integers.  usize (64-bit target) and u32 values are kept at     *)
(* their real width as four little-endian digits in radix 2^16, because    *)
(* the model checker's own integers stop at 2^31 - 1.  A u32 is a number   *)
(* whose two upper digits are 0.                                           *)
(***************************************************************************)
Radix == 256 * 256

Big(n) == <<n % Radix, n \div Radix, 0, 0>>

BigLt(a, b) ==
    \E i \in 1..4 : a[i] < b[i] /\ \A j \in (i+1)..4 : a[j] = b[j]

BigLeq(a, b) == a = b \/ BigLt(a, b)

\* usize / small divisor, schoolbook long division from the top digit down
BigDivSmall(a, d) ==
    LET q4 == a[4] \div d
        r4 == a[4] % d
        q3 == (r4 * Radix + a[3]) \div d
        r3 == (r4 * Radix + a[3]) % d
        q2 == (r3 * Radix + a[2]) \div d
        r2 == (r3 * Radix + a[2]) % d
        q1 == (r2 * Radix + a[1]) \div d
    IN  <<q1, q2, q3, q4>>

\* number * small factor (no wrap: used on values below 2^60)
BigMulSmall(a, m) ==
    LET p1 == a[1] * m
        p2 == a[2] * m + p1 \div Radix
        p3 == a[3] * m + p2 \div Radix
        p4 == a[4] * m + p3 \div Radix
    IN  <<p1 % Radix, p2 % Radix, p3 % Radix, p4 % Radix>>

BigAddSmall(a, m) ==
    LET s1 == a[1] + m
        s2 == a[2] + s1 \div Radix
        s3 == a[3] + s2 \div Radix
        s4 == a[4] + s3 \div Radix
    IN  <<s1 % Radix, s2 % Radix, s3 % Radix, s4 % Radix>>

\* u32::MAX, 2^32 and friends
U32Max == <<Radix - 1, Radix - 1, 0, 0>>
TwoTo32 == <<0, 0, 1, 0>>

\* usize -> u32 through TryInto: Ok exactly when the value fits
FitsU32(a) == a[3] = 0 /\ a[4] = 0

\* `x as u32`: the value modulo 2^32
TruncU32(a) == <<a[1], a[2], 0, 0>>


(***************************************************************************)
(* Bounds of the model.                                                    *)
(***************************************************************************)
NThreads == 3       \* threads calling BasisTranscoder::new() concurrently
MaxIndex == 2       \* image_index / level_index are drawn from 0..MaxIndex
MaxOutLen == 9      \* small output buffers have 0..MaxOutLen bytes

Threads == 1..NThreads
Indices == 0..MaxIndex

(***************************************************************************)
(* OutputFormat (lib.rs 33-104) and the engine's format tables.            *)
(***************************************************************************)
OutputFormats ==
    {"BC1_RGB", "BC3_RGBA", "BC4_R", "BC5_RG", "BC7_RGBA",
     "ETC1_RGB", "ETC2_RGBA", "ETC2_EAC_R11", "ETC2_EAC_RG11",
     "ASTC_4x4_RGBA",
     "PVRTC1_4_RGB", "PVRTC1_4_RGBA", "PVRTC2_4_RGB", "PVRTC2_4_RGBA",
     "ATC_RGB", "ATC_RGBA", "FXT1_RGB",
     "RGBA32", "RGB565", "RGBA4444", "BGR565"}

\* the variants the source documents as "Uncompressed formats ... stored in
\* raster (not block) order" (lib.rs 93-103)
UncompressedFormats == {"RGBA32", "RGB565", "RGBA4444", "BGR565"}

\* the block size the source documents: 8x4 for FXT1_RGB (lib.rs 88), 4x4 else
NativeBlockWidth(f) == IF f = "FXT1_RGB" THEN 8 ELSE 4
NativeBlockHeight(f) == 4

\* `*self as basist::transcoder_texture_format`: the discriminant of the
\* variant, which is the engine's transcoder_texture_format value
FormatCode(f) ==
    CASE f = "ETC1_RGB"       -> 0
      [] f = "ETC2_RGBA"      -> 1
      [] f = "BC1_RGB"        -> 2
      [] f = "BC3_RGBA"       -> 3
      [] f = "BC4_R"          -> 4
      [] f = "BC5_RG"         -> 5
      [] f = "BC7_RGBA"       -> 6
      [] f = "PVRTC1_4_RGB"   -> 8
      [] f = "PVRTC1_4_RGBA"  -> 9
      [] f = "ASTC_4x4_RGBA"  -> 10
      [] f = "ATC_RGB"        -> 11
      [] f = "ATC_RGBA"       -> 12
      [] f = "RGBA32"         -> 13
      [] f = "RGB565"         -> 14
      [] f = "BGR565"         -> 15
      [] f = "RGBA4444"       -> 16
      [] f = "FXT1_RGB"       -> 17
      [] f = "PVRTC2_4_RGB"   -> 18
      [] f = "PVRTC2_4_RGBA"  -> 19
      [] f = "ETC2_EAC_R11"   -> 20
      [] f = "ETC2_EAC_RG11"  -> 21

\* engine: basis_get_bytes_per_block_or_pixel(transcoder_texture_format)
EngineBytesPerBlockOrPixel(code) ==
    CASE code \in {0, 2, 4, 8, 9, 11, 17, 18, 19, 20} -> 8
      [] code \in {1, 3, 5, 6, 10, 12, 21}            -> 16
      [] code = 13                                    -> 4
      [] code \in {14, 15, 16}                        -> 2
      [] OTHER                                        -> 0

\* engine: basis_transcoder_format_is_uncompressed(transcoder_texture_format)
EngineTranscoderFormatIsUncompressed(code) == code \in {13, 14, 15, 16}

\* engine: basis_block_format_is_uncompressed(block_format).  Its parameter
\* is the engine's internal block_format enumeration, in which the raster
\* formats cRGB32 .. cRGBA4444_COLOR_OPAQUE are numbered 21..28 (the block
\* formats cETC1 .. cETC2_EAC_RG11 take 0..19 and cIndices 20).
EngineBlockFormatIsUncompressed(code) == code \in 21..28

\* engine: basis_get_block_width / basis_get_block_height
EngineBlockWidth(code) == IF code = 17 THEN 8 ELSE 4
EngineBlockHeight(code) == 4

\* OutputFormat::bytes_per_block
bytes_per_block(f) == EngineBytesPerBlockOrPixel(FormatCode(f))

\* OutputFormat::block_width
block_width(f) ==
    IF EngineBlockFormatIsUncompressed(FormatCode(f))
    THEN 1
    ELSE EngineBlockWidth(FormatCode(f))

\* OutputFormat::block_height
block_height(f) ==
    IF EngineBlockFormatIsUncompressed(FormatCode(f))
    THEN 1
    ELSE EngineBlockHeight(FormatCode(f))

(***************************************************************************)
(* Container buffers (`data: &[u8]`).  A buffer is its length and what its *)
(* bytes hold: "junk", or the front of one of three container files        *)
(* (followed by padding when the buffer is longer than the file, cut short *)
(* when it is shorter).                                                    *)
(*   "one"       one image with one 4x4 level                              *)
(*   "two"       image 0 with levels 4x4 and 2x2, image 1 with a 1x1 level *)
(*   "badtables" a good header whose codebook section is corrupt           *)
(***************************************************************************)
Contents == {"junk", "one", "two", "badtables"}

FileSize(c) ==
    CASE c = "one"       -> 100
      [] c = "two"       -> 160
      [] c = "badtables" -> 90
      [] OTHER           -> 0

\* levels of each image, as <<width, height>>
FileLevels(c) ==
    CASE c = "one" -> << << <<4, 4>> >> >>
      [] c = "two" -> << << <<4, 4>>, <<2, 2>> >>, << <<1, 1>> >> >>
      [] c = "badtables" -> << << <<4, 4>> >> >>
      [] OTHER -> << >>

\* lengths a buffer holding c comes in: empty, cut to its first 4 bytes, the
\* whole file, and padded to u32::MAX, to 2^32 and to 2^32 + the file's size
InputLens(c) ==
    {Big(0), Big(4), Big(FileSize(c)), U32Max, TwoTo32,
     BigAddSmall(TwoTo32, FileSize(c))}

Buffers == UNION {[content : {c}, len : InputLens(c)] : c \in Contents}

NoBuf == [content |-> "none", len |-> Big(0)]

\* lengths of the caller's output buffers: the small ones, the exact sizes of
\* the larger raster levels, and lengths whose block count passes u32::MAX
OutputLens ==
    {Big(n) : n \in 0..MaxOutLen}
      \cup {Big(16), Big(17), Big(32), Big(33), Big(64)}
      \cup {TwoTo32, <<0, 0, 2, 0>>, <<5, 0, 16, 0>>}

(***************************************************************************)
(* The engine, as seen through its pointer + length interface.  n is the   *)
(* 32-bit length the caller passes; the engine looks at the first n bytes. *)
(***************************************************************************)
\* validate_header: the bytes start with a well-formed header and the size
\* the header declares fits in n
EngineValidateHeader(buf, n) ==
    /\ buf.content # "junk"
    /\ BigLeq(Big(FileSize(buf.content)), n)

EngineValidateFileChecksums(buf, n, full) ==
    /\ EngineValidateHeader(buf, n)
    /\ (full => buf.content # "badtables")

EngineGetTotalImages(buf, n) ==
    IF EngineValidateHeader(buf, n) THEN Len(FileLevels(buf.content)) ELSE 0

EngineGetTotalImageLevels(buf, n, image_index) ==
    IF EngineValidateHeader(buf, n) /\ image_index < Len(FileLevels(buf.content))
    THEN Len(FileLevels(buf.content)[image_index + 1])
    ELSE 0

\* start_transcoding: header check, then the codebooks are decoded
EngineStartTranscoding(buf, n) ==
    /\ EngineValidateHeader(buf, n)
    /\ buf.content # "badtables"

EngineLevelExists(buf, n, image_index, level_index) ==
    level_index < EngineGetTotalImageLevels(buf, n, image_index)

\* get_image_level_info: [ok, m_width, m_height]; level_info is left as the
\* caller zero-initialised it when the call fails
EngineGetImageLevelInfo(buf, n, image_index, level_index) ==
    IF EngineLevelExists(buf, n, image_index, level_index)
    THEN LET d == FileLevels(buf.content)[image_index + 1][level_index + 1]
         IN  [ok |-> TRUE, m_width |-> d[1], m_height |-> d[2]]
    ELSE [ok |-> FALSE, m_width |-> 0, m_height |-> 0]

\* blocks (pixels for a raster format) a level needs in the output
EngineUnitsNeeded(code, w, h) ==
    IF EngineTranscoderFormatIsUncompressed(code)
    THEN w * h
    ELSE ((w + EngineBlockWidth(code) - 1) \div EngineBlockWidth(code))
           * ((h + EngineBlockHeight(code) - 1) \div EngineBlockHeight(code))

\* transcode_image_level: [ok, written].  It needs start_transcoding to have
\* succeeded on this very buffer, an existing level and room for the level;
\* on success it writes the level's blocks, on failure nothing.
EngineTranscodeImageLevel(eng, buf, n, image_index, level_index, cap, code) ==
    LET info == EngineGetImageLevelInfo(buf, n, image_index, level_index)
        need == EngineUnitsNeeded(code, info.m_width, info.m_height)
    IN  IF /\ eng.ready
           /\ eng.tables = buf
           /\ info.ok
           /\ BigLeq(Big(need), cap)
        THEN [ok |-> TRUE, written |-> need * EngineBytesPerBlockOrPixel(code)]
        ELSE [ok |-> FALSE, written |-> 0]

(***************************************************************************)
(* State.                                                                  *)
(***************************************************************************)
VARIABLES
    pc,          \* where each thread is inside BasisTranscoder::new()
    initOnce,    \* state of `static INIT: Once`
    cbOnce,      \* state of the Once inside `lazy_static! CODEBOOK`
    initCalls,   \* times basisu_transcoder_init was entered
    initReturns, \* times it returned
    cbBuilds,    \* times etc1_global_selector_codebook_init was entered
    cbCell,      \* construction whose value the CODEBOOK cell holds (0: none)
    ranBy,       \* the thread that ran each closure (0: none yet)
    sessions,    \* per thread: what its engine constructor was handed
    handles,     \* `data` of the live BasisFileTranscoder values of a session
    engine,      \* the session's engine instance (self.0)
    lastCall,    \* the last operation: arguments crossing into the engine, result
    panicked     \* an unwrap() failed and the calling thread is unwinding

vars == <<pc, initOnce, cbOnce, initCalls, initReturns, cbBuilds, cbCell, ranBy,
          sessions, handles, engine, lastCall, panicked>>

newVars == <<pc, initOnce, cbOnce, initCalls, initReturns, cbBuilds, cbCell, ranBy,
            sessions>>
useVars == <<handles, engine, lastCall, panicked>>

NoSession == [made |-> FALSE, cb |-> 0, initDone |-> FALSE, cbDone |-> FALSE]

NoCall ==
    [op |-> "none", buf |-> NoBuf, n |-> Big(0), image_index |-> 0,
     level_index |-> 0, full |-> FALSE, fmt |-> "none", outlen |-> Big(0),
     cap |-> Big(0), res |-> "none", val |-> 0, w |-> 0, h |-> 0,
     written |-> 0]

NewEngine == [ready |-> FALSE, tables |-> NoBuf]

(***************************************************************************)
(* std::sync::Once, which guards both cells (lazy_static keeps a Once next *)
(* to the value).  call_once returns at once when the cell is complete,    *)
(* runs the closure when it can claim the cell, and otherwise blocks until *)
(* the running closure has returned.                                       *)
(***************************************************************************)
OnceDoneRacy(st) == st # "incomplete"
OnceDone(st) == st = "complete"

OnceClaimRacy(st) == TRUE
OnceClaim(st) == st = "incomplete"

OnceNeverPublished == "running"
OnceCompleted == "complete"

(***************************************************************************)
(* BasisTranscoder::new(), one step per synchronisation point.             *)
(***************************************************************************)
\* INIT.call_once(|| basisu_transcoder_init()): entry
CallOnce(t) ==
    /\ pc[t] = "new"
    /\ IF OnceDone(initOnce)
       THEN /\ pc' = [pc EXCEPT ![t] = "deref"]
            /\ UNCHANGED <<initOnce, initCalls, ranBy>>
       ELSE IF OnceClaim(initOnce)
       THEN /\ initOnce' = "running"
            /\ initCalls' = initCalls + 1
            /\ ranBy' = [ranBy EXCEPT !.init = t]
            /\ pc' = [pc EXCEPT ![t] = "init_body"]
       ELSE /\ pc' = [pc EXCEPT ![t] = "init_wait"]
            /\ UNCHANGED <<initOnce, initCalls, ranBy>>
    /\ UNCHANGED <<cbOnce, initReturns, cbBuilds, cbCell, sessions>>
    /\ UNCHANGED useVars

\* basisu_transcoder_init() returns and the Once is marked complete
InitReturn(t) ==
    /\ pc[t] = "init_body"
    /\ initReturns' = initReturns + 1
    /\ initOnce' = OnceCompleted
    /\ pc' = [pc EXCEPT ![t] = "deref"]
    /\ UNCHANGED <<cbOnce, initCalls, cbBuilds, cbCell, ranBy, sessions>>
    /\ UNCHANGED useVars

\* a caller blocked in call_once is released
InitWake(t) ==
    /\ pc[t] = "init_wait"
    /\ OnceDone(initOnce)
    /\ pc' = [pc EXCEPT ![t] = "deref"]
    /\ UNCHANGED <<initOnce, cbOnce, initCalls, initReturns, cbBuilds, cbCell, ranBy,
                   sessions>>
    /\ UNCHANGED useVars

\* `&*CODEBOOK`: entry of the lazy cell
DerefCodebook(t) ==
    /\ pc[t] = "deref"
    /\ IF OnceDone(cbOnce)
       THEN /\ pc' = [pc EXCEPT ![t] = "ctor"]
            /\ UNCHANGED <<cbOnce, cbBuilds, ranBy>>
       ELSE IF OnceClaim(cbOnce)
       THEN /\ cbOnce' = "running"
            /\ cbBuilds' = cbBuilds + 1
            /\ ranBy' = [ranBy EXCEPT !.cb = t]
            /\ pc' = [pc EXCEPT ![t] = "cb_body"]
       ELSE /\ pc' = [pc EXCEPT ![t] = "cb_wait"]
            /\ UNCHANGED <<cbOnce, cbBuilds, ranBy>>
    /\ UNCHANGED <<initOnce, initCalls, initReturns, cbCell, sessions>>
    /\ UNCHANGED useVars

\* etc1_global_selector_codebook_init returns; `cb` is stored in the cell
CodebookReturn(t) ==
    /\ pc[t] = "cb_body"
    /\ cbCell' = cbBuilds
    /\ cbOnce' = OnceCompleted
    /\ pc' = [pc EXCEPT ![t] = "ctor"]
    /\ UNCHANGED <<initOnce, initCalls, initReturns, cbBuilds, ranBy, sessions>>
    /\ UNCHANGED useVars

CodebookWake(t) ==
    /\ pc[t] = "cb_wait"
    /\ OnceDone(cbOnce)
    /\ pc' = [pc EXCEPT ![t] = "ctor"]
    /\ UNCHANGED <<initOnce, cbOnce, initCalls, initReturns, cbBuilds, cbCell, ranBy,
                   sessions>>
    /\ UNCHANGED useVars

\* basisu_transcoder_basisu_transcoder(&mut t, &*CODEBOOK); Self(t)
Construct(t) ==
    /\ pc[t] = "ctor"
    /\ sessions' = [sessions EXCEPT ![t] =
                      [made |-> TRUE,
                       cb |-> cbCell,
                       initDone |-> initReturns > 0 /\ initReturns = initCalls,
                       cbDone |-> cbCell > 0 /\ cbCell = cbBuilds]]
    /\ pc' = [pc EXCEPT ![t] = "done"]
    /\ UNCHANGED <<initOnce, cbOnce, initCalls, initReturns, cbBuilds, cbCell, ranBy>>
    /\ UNCHANGED useVars

NewStep(t) ==
    \/ CallOnce(t)
    \/ InitReturn(t)
    \/ InitWake(t)
    \/ DerefCodebook(t)
    \/ CodebookReturn(t)
    \/ CodebookWake(t)
    \/ Construct(t)

InitNew ==
    /\ pc = [t \in Threads |-> "new"]
    /\ initOnce = "incomplete"
    /\ cbOnce = "incomplete"
    /\ initCalls = 0
    /\ initReturns = 0
    /\ cbBuilds = 0
    /\ cbCell = 0
    /\ ranBy = [init |-> 0, cb |-> 0]
    /\ sessions = [t \in Threads |-> NoSession]
    /\ handles = {}
    /\ engine = NewEngine
    /\ lastCall = NoCall
    /\ panicked = FALSE

NextNew == \E t \in Threads : NewStep(t)

SpecNew == InitNew /\ [][NextNew]_vars

\* every thread is an OS thread that keeps running until new() returns
FairSpecNew == SpecNew /\ \A t \in Threads : WF_vars(NewStep(t))

(***************************************************************************)
(* Helpers of the session and handle operations.                           *)
(***************************************************************************)
\* `data.len().try_into()` (usize -> u32); the caller unwrap()s the result
CheckedLenLossy(len) == [ok |-> TRUE, n |-> TruncU32(len)]
CheckedLen(len) == [ok |-> FitsU32(len), n |-> TruncU32(len)]

\* `&'a mut self` in start_transcoding and `transcoder: &'a mut BasisTranscoder`
\* in the handle: while a handle lives nothing else can borrow the session
SessionBorrowableShared == TRUE
SessionBorrowable == handles = {}

\* start_transcoding: `if !self.0.start_transcoding(..) { return Err(..) }`
StartTranscodingResultIgnored(ok) == "Ok"
StartTranscodingResult(ok) == IF ok THEN "Ok" ELSE "Err(InvalidFileContents)"

\* level_dimensions: `if !get_image_level_info(..) { return Err(..) }`, then
\* Ok((level_info.m_width, level_info.m_height))
LevelDimensionsResultUnchecked(info) ==
    [res |-> "Ok", w |-> info.m_width, h |-> info.m_height]
LevelDimensionsResult(info) ==
    IF ~info.ok
    THEN [res |-> "Err(InvalidArgument)", w |-> 0, h |-> 0]
    ELSE [res |-> "Ok", w |-> info.m_width, h |-> info.m_height]

\* transcode_image_level: `output.len() / output_format.bytes_per_block() as usize`
OutputSizeInBytes(outlen, f) == outlen
OutputSizeBlocks(outlen, f) == BigDivSmall(outlen, bytes_per_block(f))

\* the caller is between two operations
Idle == ~panicked /\ lastCall.op = "none"

BoolRes(b) == IF b THEN "true" ELSE "false"

Panic(op, data, outlen) ==
    /\ panicked' = TRUE
    /\ lastCall' = [NoCall EXCEPT !.op = op, !.buf = data, !.outlen = outlen,
                                  !.res = "panic"]
    /\ UNCHANGED <<handles, engine>>

(***************************************************************************)
(* BasisTranscoder operations (`&self`, one session).                      *)
(***************************************************************************)
validate_file_checksums(data, full_validation) ==
    /\ Idle
    /\ SessionBorrowable
    /\ LET c == CheckedLen(data.len)
       IN  IF ~c.ok
           THEN Panic("validate_file_checksums", data, Big(0))
           ELSE /\ lastCall' = [NoCall EXCEPT
                     !.op = "validate_file_checksums", !.buf = data, !.n = c.n,
                     !.full = full_validation,
                     !.res = BoolRes(EngineValidateFileChecksums(data, c.n, full_validation))]
                /\ UNCHANGED <<handles, engine, panicked>>
    /\ UNCHANGED newVars

validate_file_header(data) ==
    /\ Idle
    /\ SessionBorrowable
    /\ LET c == CheckedLen(data.len)
       IN  IF ~c.ok
           THEN Panic("validate_file_header", data, Big(0))
           ELSE /\ lastCall' = [NoCall EXCEPT
                     !.op = "validate_file_header", !.buf = data, !.n = c.n,
                     !.res = BoolRes(EngineValidateHeader(data, c.n))]
                /\ UNCHANGED <<handles, engine, panicked>>
    /\ UNCHANGED newVars

\* shared by BasisTranscoder::get_total_images and the handle's delegation
TotalImagesCall(data) ==
    LET c == CheckedLen(data.len)
    IN  IF ~c.ok
        THEN Panic("get_total_images", data, Big(0))
        ELSE /\ lastCall' = [NoCall EXCEPT
                  !.op = "get_total_images", !.buf = data, !.n = c.n,
                  !.res = "count", !.val = EngineGetTotalImages(data, c.n)]
             /\ UNCHANGED <<handles, engine, panicked>>

TotalImageLevelsCall(data, image_index) ==
    LET c == CheckedLen(data.len)
    IN  IF ~c.ok
        THEN Panic("get_total_image_levels", data, Big(0))
        ELSE /\ lastCall' = [NoCall EXCEPT
                  !.op = "get_total_image_levels", !.buf = data, !.n = c.n,
                  !.image_index = image_index,
                  !.res = "count",
                  !.val = EngineGetTotalImageLevels(data, c.n, image_index)]
             /\ UNCHANGED <<handles, engine, panicked>>

get_total_images(data) ==
    /\ Idle
    /\ SessionBorrowable
    /\ TotalImagesCall(data)
    /\ UNCHANGED newVars

get_total_image_levels(data, image_index) ==
    /\ Idle
    /\ SessionBorrowable
    /\ TotalImageLevelsCall(data, image_index)
    /\ UNCHANGED newVars

\* A failed engine start_transcoding that got past the header may have
\* dropped the codebooks of an earlier file: either outcome is allowed.
EngineAfterFailedStart(data, n) ==
    IF EngineValidateHeader(data, n)
    THEN {engine, [engine EXCEPT !.tables = NoBuf]}
    ELSE {engine}

start_transcoding(data) ==
    /\ Idle
    /\ SessionBorrowable
    /\ LET c == CheckedLen(data.len)
       IN  IF ~c.ok
           THEN Panic("start_transcoding", data, Big(0))
           ELSE LET ok == EngineStartTranscoding(data, c.n)
                    r == StartTranscodingResult(ok)
                IN  /\ lastCall' = [NoCall EXCEPT
                          !.op = "start_transcoding", !.buf = data, !.n = c.n,
                          !.res = r]
                    /\ handles' = IF r = "Ok" THEN handles \cup {data} ELSE handles
                    /\ IF ok
                       THEN engine' = [ready |-> TRUE, tables |-> data]
                       ELSE engine' \in EngineAfterFailedStart(data, c.n)
                    /\ UNCHANGED panicked
    /\ UNCHANGED newVars

(***************************************************************************)
(* BasisFileTranscoder operations (h is the handle's `data`).              *)
(***************************************************************************)
handle_get_total_images(h) ==
    /\ Idle
    /\ h \in handles
    /\ TotalImagesCall(h)
    /\ UNCHANGED newVars

handle_get_total_image_levels(h, image_index) ==
    /\ Idle
    /\ h \in handles
    /\ TotalImageLevelsCall(h, image_index)
    /\ UNCHANGED newVars

level_dimensions(h, image_index, level_index) ==
    /\ Idle
    /\ h \in handles
    /\ LET n == TruncU32(h.len)
           r == LevelDimensionsResult(
                    EngineGetImageLevelInfo(h, n, image_index, level_index))
       IN  lastCall' = [NoCall EXCEPT
               !.op = "level_dimensions", !.buf = h, !.n = n,
               !.image_index = image_index, !.level_index = level_index,
               !.res = r.res, !.w = r.w, !.h = r.h]
    /\ UNCHANGED <<handles, engine, panicked>>
    /\ UNCHANGED newVars

transcode_image_level(h, image_index, level_index, outlen, output_format) ==
    /\ Idle
    /\ h \in handles
    /\ LET output_size_blocks == OutputSizeBlocks(outlen, output_format)
       IN  IF ~FitsU32(output_size_blocks)
           THEN Panic("transcode_image_level", h, outlen)
           ELSE LET n == TruncU32(h.len)
                    r == EngineTranscodeImageLevel(engine, h, n, image_index,
                             level_index, output_size_blocks,
                             FormatCode(output_format))
                IN  /\ lastCall' = [NoCall EXCEPT
                          !.op = "transcode_image_level", !.buf = h, !.n = n,
                          !.image_index = image_index, !.level_index = level_index,
                          !.fmt = output_format, !.outlen = outlen,
                          !.cap = output_size_blocks,
                          !.res = IF r.ok THEN "Ok" ELSE "Err(InvalidFileContents)",
                          !.written = r.written]
                    /\ UNCHANGED <<handles, engine, panicked>>
    /\ UNCHANGED newVars

\* the handle goes out of scope and its borrows end
drop_handle(h) ==
    /\ Idle
    /\ h \in handles
    /\ handles' = handles \ {h}
    /\ lastCall' = [NoCall EXCEPT !.op = "drop", !.buf = h]
    /\ UNCHANGED <<engine, panicked>>
    /\ UNCHANGED newVars

(***************************************************************************)
(* OutputFormat queries.                                                   *)
(***************************************************************************)
query_bytes_per_block(f) ==
    /\ Idle
    /\ lastCall' = [NoCall EXCEPT !.op = "bytes_per_block", !.fmt = f,
                                  !.val = bytes_per_block(f)]
    /\ UNCHANGED <<handles, engine, panicked>>
    /\ UNCHANGED newVars

query_block_width(f) ==
    /\ Idle
    /\ lastCall' = [NoCall EXCEPT !.op = "block_width", !.fmt = f,
                                  !.val = block_width(f)]
    /\ UNCHANGED <<handles, engine, panicked>>
    /\ UNCHANGED newVars

query_block_height(f) ==
    /\ Idle
    /\ lastCall' = [NoCall EXCEPT !.op = "block_height", !.fmt = f,
                                  !.val = block_height(f)]
    /\ UNCHANGED <<handles, engine, panicked>>
    /\ UNCHANGED newVars

\* the operation has returned and the caller has taken its result
return_to_caller ==
    /\ ~panicked
    /\ lastCall.op # "none"
    /\ lastCall' = NoCall
    /\ UNCHANGED <<handles, engine, panicked>>
    /\ UNCHANGED newVars

(***************************************************************************)
(* One session in use: every thread has returned from new().               *)
(***************************************************************************)
Init ==
    /\ pc = [t \in Threads |-> "done"]
    /\ initOnce = "complete"
    /\ cbOnce = "complete"
    /\ initCalls = 1
    /\ initReturns = 1
    /\ cbBuilds = 1
    /\ cbCell = 1
    /\ ranBy = [init |-> 1, cb |-> 1]
    /\ sessions = [t \in Threads |->
                     [made |-> TRUE, cb |-> 1, initDone |-> TRUE, cbDone |-> TRUE]]
    /\ handles = {}
    /\ engine = NewEngine
    /\ lastCall = NoCall
    /\ panicked = FALSE

Next ==
    \/ \E data \in Buffers, full \in BOOLEAN : validate_file_checksums(data, full)
    \/ \E data \in Buffers : validate_file_header(data)
    \/ \E data \in Buffers : get_total_images(data)
    \/ \E data \in Buffers, i \in Indices : get_total_image_levels(data, i)
    \/ \E data \in Buffers : start_transcoding(data)
    \/ \E h \in handles : handle_get_total_images(h)
    \/ \E h \in handles, i \in Indices : handle_get_total_image_levels(h, i)
    \/ \E h \in handles, i \in Indices, l \in Indices : level_dimensions(h, i, l)
    \/ \E h \in handles, i \in Indices, l \in Indices,
          outlen \in OutputLens, f \in OutputFormats :
            transcode_image_level(h, i, l, outlen, f)
    \/ \E h \in handles : drop_handle(h)
    \/ \E f \in OutputFormats : query_bytes_per_block(f)
    \/ \E f \in OutputFormats : query_block_width(f)
    \/ \E f \in OutputFormats : query_block_height(f)
    \/ return_to_caller

Spec == Init /\ [][Next]_vars

(***************************************************************************)
(* Properties.                                                             *)
(***************************************************************************)
Made == {t \in Threads : sessions[t].made}

\* C1: however the threads calling new() interleave, basisu_transcoder_init
\* is entered at most once and the codebook is constructed at most once; once
\* any session exists both have happened exactly once, and every session was
\* handed the one value held by the CODEBOOK cell.
C1_InitOnceSharedCodebook ==
    /\ initCalls <= 1
    /\ cbBuilds <= 1
    /\ \A t \in Made :
          /\ initCalls = 1
          /\ cbBuilds = 1
          /\ sessions[t].cb = 1
          /\ sessions[t].cb = cbCell

\* all threads hold a session, and more than one of them exists
C1_Witness ==
    /\ Made = Threads
    /\ initCalls = 1
    /\ cbBuilds = 1
    /\ \A t \in Threads : pc[t] = "done"

\* C2: the codebook construction starts only after basisu_transcoder_init
\* has returned, and an engine constructor runs only after both the setup
\* routine and the codebook construction have returned; every constructor
\* was handed a fully constructed codebook.
C2_SetupBeforeCodebookBeforeEngine ==
    /\ cbBuilds > 0 => (initReturns = 1 /\ initCalls = 1)
    /\ \A t \in Threads :
          /\ pc[t] = "cb_body" => \A u \in Threads : pc[u] # "init_body"
          /\ pc[t] = "ctor" =>
                /\ initReturns = 1 /\ initCalls = 1
                /\ cbCell = 1 /\ cbBuilds = 1
                /\ \A u \in Threads : pc[u] \notin {"init_body", "cb_body"}
          /\ sessions[t].made => (sessions[t].initDone /\ sessions[t].cbDone)

\* one thread is about to construct its engine while another is still
\* parked on the codebook cell and a third already owns a session
C2_Witness ==
    \E t, u, v \in Threads :
        /\ pc[t] = "ctor"
        /\ pc[u] = "cb_wait"
        /\ sessions[v].made

\* C3: under fair scheduling of the threads, every call of new() returns a
\* session.
C3_EveryNewReturns == <>(\A t \in Threads : pc[t] = "done" /\ sessions[t].made)

\* the thread that ran the setup routine is now building the codebook while
\* one thread is parked on INIT and another on CODEBOOK
C3_Witness ==
    \E t, u, v \in Threads :
        /\ ranBy.init = t /\ ranBy.cb = t
        /\ pc[t] = "cb_body"
        /\ pc[u] = "init_wait"
        /\ pc[v] = "cb_wait"

HandleOps == {"level_dimensions", "transcode_image_level"}

\* C4: every live handle holds a buffer on which the engine's
\* start_transcoding succeeded and which is still the one the engine was
\* last started on; a session has at most one live handle; the buffer passed
\* to the engine by level_dimensions / transcode_image_level is that buffer.
C4_HandleBoundToStartedBuffer ==
    /\ Cardinality(handles) <= 1
    /\ \A h \in handles :
          /\ EngineStartTranscoding(h, TruncU32(h.len))
          /\ engine.ready
          /\ engine.tables = h
    /\ lastCall.op \in HandleOps /\ lastCall.res # "panic" =>
          /\ lastCall.buf \in handles
          /\ engine.ready
          /\ engine.tables = lastCall.buf

\* a transcode succeeded through a handle on the buffer the engine holds
C4_Witness ==
    /\ lastCall.op = "transcode_image_level"
    /\ lastCall.res = "Ok"
    /\ lastCall.buf.content = "two"
    /\ handles = {lastCall.buf}

C5_State ==
    lastCall.op = "start_transcoding" /\ lastCall.res # "panic" =>
        /\ lastCall.res = "Err(InvalidFileContents)"
              <=> ~EngineStartTranscoding(lastCall.buf, lastCall.buf.len)
        /\ lastCall.res = "Ok" <=> lastCall.buf \in handles
        /\ lastCall.res = "Err(InvalidFileContents)" => handles = {}

C5_Step ==
    lastCall'.op = "start_transcoding" /\ lastCall'.res = "Err(InvalidFileContents)" =>
        /\ handles' = handles
        /\ engine'.ready = engine.ready
        /\ panicked' = panicked

\* what each query answers for a buffer, whatever happened before
C5_Pure ==
    /\ lastCall.op = "validate_file_header" /\ lastCall.res # "panic" =>
          lastCall.res = BoolRes(EngineValidateHeader(lastCall.buf, lastCall.buf.len))
    /\ lastCall.op = "validate_file_checksums" /\ lastCall.res # "panic" =>
          lastCall.res = BoolRes(EngineValidateFileChecksums(
                                    lastCall.buf, lastCall.buf.len, lastCall.full))
    /\ lastCall.op = "get_total_images" /\ lastCall.res # "panic" =>
          lastCall.val = EngineGetTotalImages(lastCall.buf, lastCall.buf.len)
    /\ lastCall.op = "get_total_image_levels" /\ lastCall.res # "panic" =>
          lastCall.val = EngineGetTotalImageLevels(
                             lastCall.buf, lastCall.buf.len, lastCall.image_index)

\* C5: a start_transcoding that reaches the engine returns
\* Err(InvalidFileContents) exactly when the engine's start_transcoding
\* rejects the buffer; then no handle is created, the set of handles and the
\* engine's started flag are as before, and every later query and start
\* answers as a function of its own buffer alone.
C5_FailedStartLeavesSession == [](C5_State /\ C5_Pure) /\ [][C5_Step]_vars

\* a start failed on a session that had been started successfully before
C5_Witness ==
    /\ lastCall.op = "start_transcoding"
    /\ lastCall.res = "Err(InvalidFileContents)"
    /\ lastCall.buf.content = "badtables"
    /\ engine.ready
    /\ engine.tables = NoBuf

\* C6: no session or handle operation panics.
C6_NoPanic == ~panicked

\* C7: the capacity handed to the engine by transcode_image_level is
\* floor(output.len() / bytes_per_block(format)) blocks, so capacity *
\* bytes_per_block <= output.len() < (capacity + 1) * bytes_per_block; the
\* bytes written stay within the full blocks, and an output shorter than one
\* block has capacity 0 and receives nothing.
C7_CapacityInWholeBlocks ==
    lastCall.op = "transcode_image_level" /\ lastCall.res # "panic" =>
        LET bpb == bytes_per_block(lastCall.fmt)
            capBytes == BigMulSmall(lastCall.cap, bpb)
        IN  /\ bpb > 0
            /\ BigLeq(capBytes, lastCall.outlen)
            /\ BigLt(lastCall.outlen, BigAddSmall(capBytes, bpb))
            /\ BigLeq(Big(lastCall.written), capBytes)
            /\ BigLt(lastCall.outlen, Big(bpb)) =>
                  (lastCall.cap = Big(0) /\ lastCall.written = 0)

\* a level was written into an output whose length is no multiple of the
\* block size
C7_Witness ==
    /\ lastCall.op = "transcode_image_level"
    /\ lastCall.res = "Ok"
    /\ lastCall.written > 0
    /\ BigLt(Big(lastCall.written), lastCall.outlen)
    /\ BigMulSmall(lastCall.cap, bytes_per_block(lastCall.fmt)) # lastCall.outlen

\* the level (image_index, level_index) of a container file
FileHasLevel(c, image_index, level_index) ==
    /\ image_index < Len(FileLevels(c))
    /\ level_index < Len(FileLevels(c)[image_index + 1])

\* C8: level_dimensions returns Err(InvalidArgument) exactly when the index
\* pair names no level of the handle's buffer and otherwise Ok with that
\* level's width and height; it never returns InvalidFileContents.
C8_LevelDimensions ==
    lastCall.op = "level_dimensions" =>
        LET c == lastCall.buf.content
            exists == FileHasLevel(c, lastCall.image_index, lastCall.level_index)
        IN  /\ lastCall.res \in {"Ok", "Err(InvalidArgument)"}
            /\ lastCall.res = "Err(InvalidArgument)" <=> ~exists
            /\ exists =>
                  <<lastCall.w, lastCall.h>> =
                      FileLevels(c)[lastCall.image_index + 1][lastCall.level_index + 1]
            /\ lastCall.res = "Ok" => (lastCall.w > 0 /\ lastCall.h > 0)

\* a level index past the only level of a one-level file was refused
C8_Witness ==
    /\ lastCall.op = "level_dimensions"
    /\ lastCall.buf.content = "one"
    /\ lastCall.image_index = 0
    /\ lastCall.level_index = MaxIndex
    /\ lastCall.res = "Err(InvalidArgument)"

\* C9: block_width and block_height return 1 for the uncompressed formats
\* (RGBA32, RGB565, RGBA4444, BGR565) and the native block size otherwise
\* (8 wide for FXT1_RGB, else 4); bytes_per_block is positive.
C9_FormatMetadata ==
    /\ lastCall.op = "block_width" =>
          lastCall.val = IF lastCall.fmt \in UncompressedFormats
                         THEN 1 ELSE NativeBlockWidth(lastCall.fmt)
    /\ lastCall.op = "block_height" =>
          lastCall.val = IF lastCall.fmt \in UncompressedFormats
                         THEN 1 ELSE NativeBlockHeight(lastCall.fmt)
    /\ lastCall.op = "bytes_per_block" => lastCall.val > 0

EngineOps ==
    {"validate_file_checksums", "validate_file_header", "get_total_images",
     "get_total_image_levels", "start_transcoding", "level_dimensions",
     "transcode_image_level"}

\* C10: whenever an operation calls the engine, the 32-bit length it passes
\* is the length of the buffer it passes; the buffer of a live handle is at
\* most 2^32 - 1 bytes long, so `self.data.len() as u32` loses nothing.
C10_LengthMatchesBuffer ==
    /\ lastCall.op \in EngineOps /\ lastCall.res # "panic" =>
          lastCall.n = lastCall.buf.len
    /\ \A h \in handles : BigLeq(h.len, U32Max) /\ TruncU32(h.len) = h.len

\* a handle on a buffer of exactly u32::MAX bytes queried a level
C10_Witness ==
    /\ lastCall.op = "level_dimensions"
    /\ lastCall.buf.len = U32Max
    /\ lastCall.res = "Ok"
    /\ lastCall.n = U32Max

=============================================================================
